---- MODULE Spec2Model ----
(***************************************************************************)
(* A model of dl_poly_parse.py: the DL_POLY OUTPUT parser.                 *)
(*                                                                         *)
(* A text line is abstracted to its character length and its whitespace-   *)
(* split tokens, the only two things the code reads of a line besides its  *)
(* equality with BREAK.  Tokens are strings.  Numeric literals are bounded *)
(* to non-negative numbers with at most one decimal digit, so a Python     *)
(* float is represented exactly by its value in tenths.                    *)
(***************************************************************************)
EXTENDS Integers, Sequences, FiniteSets, TLC

VARIABLES lines, headers, pc, i, properties, table, err, errTok,
          sorted_headers, sorted_props, parsed, query

vars == <<lines, headers, pc, i, properties, table, err, errTok,
          sorted_headers, sorted_props, parsed, query>>

-----------------------------------------------------------------------------
(* Bounds of the model *)

\* the number of blocks (records, separators, text lines) after the header
MaxBlocks == 3
\* largest numeric literal of the token alphabet, in tenths
MaxTenths == 999

-----------------------------------------------------------------------------
(* Program constants *)

Width == 118
BreakLen == 122
Stride == 10
Keep == 30
CpuIndex == 20
AvgOffset == 4
HeaderField == 12
ValueField == 11

DASHES == "------------------------------------------------------------------------------------------------------------------------"
BREAK == [len |-> BreakLen, toks |-> <<DASHES>>]
STAR == "********"

-----------------------------------------------------------------------------
(* Python values and conversions *)

PyInt(n) == [ty |-> "int", n |-> n, s |-> ""]
PyFloat(t) == [ty |-> "float", n |-> t, s |-> ""]
PyStr(s) == [ty |-> "str", n |-> 0, s |-> s]

\* the literal of a float given in tenths, as str() prints it: "12.5"
FloatLit(t) == ToString(t \div 10) \o "." \o ToString(t % 10)
\* the literal of an integer
IntLit(n) == ToString(n)

IntToks == {IntLit(n) : n \in 0..(MaxTenths \div 10)}
DecToks == {FloatLit(t) : t \in 0..MaxTenths}

\* int("12") = 12; any other token raises ValueError
IntOf == [s \in IntToks |-> CHOOSE n \in 0..(MaxTenths \div 10) : IntLit(n) = s]
\* float("12") = 12.0 and float("12.5") = 12.5, in tenths
FloatOf == [s \in IntToks \cup DecToks |->
              IF s \in IntToks
                THEN 10 * (CHOOSE n \in 0..(MaxTenths \div 10) : IntLit(n) = s)
                ELSE CHOOSE t \in 0..MaxTenths : FloatLit(t) = s]

IsInt(tok) == tok \in DOMAIN IntOf
IsFloat(tok) == tok \in DOMAIN FloatOf

\* int(x) of a float x: truncation
IntOfFloat(v) == PyInt(v.n \div 10)

\* try: float(tok) except ValueError: tok
FloatOrRaw(tok) == IF IsFloat(tok) THEN PyFloat(FloatOf[tok]) ELSE PyStr(tok)

\* str(v), as the %s conversion computes it
Str(v) == CASE v.ty = "int" -> IntLit(v.n)
            [] v.ty = "float" -> FloatLit(v.n)
            [] OTHER -> v.s

RECURSIVE Spaces(_)
Spaces(n) == IF n <= 0 THEN "" ELSE " " \o Spaces(n - 1)

\* "%-Ws" % s
LJust(s, w) == s \o Spaces(w - Len(s))

-----------------------------------------------------------------------------
(* Sequence helpers with Python's 0-based indices *)

At(seq, k) == seq[k + 1]
Range(seq) == {seq[k] : k \in 1..Len(seq)}
\* list.index(x), for x in the list
IndexOf(seq, x) == (CHOOSE k \in 1..Len(seq) : seq[k] = x /\ \A m \in 1..(k-1) : seq[m] # x) - 1
\* seq[:-1]
DropLast(seq) == IF Len(seq) = 0 THEN <<>> ELSE SubSeq(seq, 1, Len(seq) - 1)
\* list.remove(x): the first occurrence
RemoveFirst(seq, x) ==
  LET k == IndexOf(seq, x) + 1
  IN SubSeq(seq, 1, k - 1) \o SubSeq(seq, k + 1, Len(seq))

-----------------------------------------------------------------------------
(* The input alphabet: lines of an OUTPUT file *)

Line(n, toks) == [len |-> n, toks |-> toks]
Blank == Line(1, <<>>)
Text == Line(40, <<"run", "terminated">>)

H1 == Line(Width, <<"step", "eng_tot", "temp_tot", "eng_cfg", "eng_vdw",
                    "eng_cou", "eng_bnd", "eng_ang", "eng_dih", "eng_tet">>)
H2 == Line(Width, <<"time(ps)", "eng_pv", "temp_rot", "vir_cfg", "vir_vdw",
                    "vir_cou", "vir_bnd", "vir_ang", "vir_con", "vir_tet">>)
H3 == Line(Width, <<"cpu", "(s)", "volume", "temp_shl", "eng_shl", "vir_shl",
                    "alpha", "beta", "gamma", "vir_pmf", "press">>)

\* the head of the truncated file: the first BREAK, a blank line and the three
\* header lines; "swapped" lists the cpu line before the time line
HeaderKinds == {"canonical", "swapped"}
FileHead(hk) == IF hk = "canonical" THEN <<BREAK, Blank, H1, H2, H3>>
                                    ELSE <<BREAK, Blank, H1, H3, H2>>

\* the token of record kind r in column j (0-based)
Value(r, j) == FloatLit(100 * r + j)
RecTok(kind, r, j) ==
  CASE j = 0 /\ kind = "star0" -> STAR
    [] j = 0 /\ kind = "fstep" -> FloatLit(10 * r + 5)
    [] j = 0 -> IntLit(r)
    [] kind = "starmid" /\ j \in {3, 14, 29} -> STAR
    [] OTHER -> Value(r, j)

\* one of the three lines of a record: 10 tokens, 118 characters
Row(kind, r, k, n) == Line(Width, [c \in 1..n |-> RecTok(kind, r, Stride * k + c - 1)])

\* a record: BREAK and three value lines
Rec(kind, r) == <<BREAK, Row(kind, r, 0, Stride), Row(kind, r, 1, Stride),
                  Row(kind, r, 2, IF kind = "short" THEN Stride - 1 ELSE Stride)>>

\* the rolling averages below a record: a blank line and three lines holding
\* "rolling", "average" and no token in the place of step, time(ps) and cpu(s)
RollTok(r, j) == FloatLit(900 + 10 * r + j)
Roll(r) == <<Blank,
             Line(Width, <<"rolling">> \o [c \in 1..(Stride - 1) |-> RollTok(r, c)]),
             Line(Width, <<"average">> \o [c \in 1..(Stride - 1) |-> RollTok(r, Stride + c)]),
             Line(Width, [c \in 1..(Stride - 1) |-> RollTok(r, 2 * Stride + c)])>>

\* "closing" is a separator that starts no record, as the one that closes the
\* final averages does
BlockKinds == {"break", "closing", "rec", "star0", "starmid", "short", "fstep"}
Block(b) == CASE b = "break" -> <<BREAK>>
              [] b = "closing" -> <<BREAK, Text>>
              [] b = "rec" -> Rec("rec", 1) \o Roll(1)
              [] b = "star0" -> Rec("star0", 2)
              [] b = "starmid" -> Rec("starmid", 3)
              [] b = "short" -> Rec("short", 4)
              [] b = "fstep" -> Rec("fstep", 5)

RECURSIVE Flatten(_)
Flatten(bs) == IF bs = <<>> THEN <<>> ELSE Block(Head(bs)) \o Flatten(Tail(bs))

-----------------------------------------------------------------------------
(* get_headers *)

Toks3(ls, k) == ls[k].toks \o ls[k + 1].toks \o ls[k + 2].toks

\* lines[2], lines[3], lines[4] of Python are ls[3], ls[4], ls[5]
get_headers(ls) ==
  LET h == RemoveFirst(Toks3(ls, 3), "(s)")
  IN [h EXCEPT ![IndexOf(h, "cpu") + 1] = "cpu(s)"]

-----------------------------------------------------------------------------
(* sort_by_column *)

\* a slip: the slice starts one element late, unsorted[i+1::10]
SliceFromNext(unsorted, k) ==
  [m \in 1..((Len(unsorted) - k - 1 + Stride - 1) \div Stride) |->
     At(unsorted, k + 1 + Stride * (m - 1))]

\* unsorted[i::10], i 0-based
Slice(unsorted, k) ==
  [m \in 1..((Len(unsorted) - k + Stride - 1) \div Stride) |-> At(unsorted, k + Stride * (m - 1))]

RECURSIVE Gather(_, _)
Gather(unsorted, k) ==
  IF k >= Len(unsorted) THEN <<>> ELSE Slice(unsorted, k) \o Gather(unsorted, k + 1)

sort_by_column(unsorted) ==
  LET sort == Gather(unsorted, 0)
  IN SubSeq(sort, 1, IF Len(sort) < Keep THEN Len(sort) ELSE Keep)

-----------------------------------------------------------------------------
(* get_all_props: one step of the scan *)

\* line == BREAK and len(lines[i+1]) == 118, for k within the file; the
\* second operand reads lines[k+1] only when the first holds
NextMissing(ls, k) == ls[k] = BREAK /\ k + 1 > Len(ls)
Qualifies(ls, k) == ls[k] = BREAK /\ k + 1 <= Len(ls) /\ ls[k + 1].len = Width

\* the first token float() rejects
FirstBad(values) ==
  LET bad == {c \in 1..Len(values) : ~IsFloat(values[c])}
  IN IF bad = {} THEN 0 ELSE CHOOSE c \in bad : \A d \in bad : c <= d

\* properties = [[float(v)] for v in values]; properties[0][0] = int(properties[0][0])
FillFirst(values) ==
  IF FirstBad(values) # 0
    THEN [props |-> <<>>, err |-> "ValueError", tok |-> values[FirstBad(values)]]
  ELSE IF values = <<>>
    THEN [props |-> <<>>, err |-> "IndexError", tok |-> ""]
  ELSE [props |-> [c \in 1..Len(values) |->
                     IF c = 1 THEN <<IntOfFloat(PyFloat(FloatOf[values[c]]))>>
                              ELSE <<PyFloat(FloatOf[values[c]])>>],
        err |-> "", tok |-> ""]

\* the value appended to column c (1-based): int() for the first column,
\* float() with the raw string on ValueError for the others
Parsed(values, c) == IF c = 1 THEN PyInt(IntOf[values[c]]) ELSE FloatOrRaw(values[c])

\* the first column whose append raises
FailsAt(values, c) == c > Len(values) \/ (c = 1 /\ ~IsInt(values[c]))
FirstFail(props, values) ==
  LET bad == {c \in 1..Len(props) : FailsAt(values, c)}
  IN IF bad = {} THEN 0 ELSE CHOOSE c \in bad : \A d \in bad : c <= d

\* a slip: a token float() rejects is skipped instead of kept as a string
AppendRowSkipsRaw(props, values) ==
  LET f == FirstFail(props, values)
      keep(c) == c = 1 \/ IsFloat(values[c])
  IN IF f = 0
       THEN [props |-> [c \in 1..Len(props) |->
                          IF keep(c) THEN Append(props[c], Parsed(values, c)) ELSE props[c]],
             err |-> "", tok |-> ""]
       ELSE [props |-> props, err |-> "IndexError", tok |-> ""]

\* for j, prop in enumerate(properties): prop.append(...)
AppendRow(props, values) ==
  LET f == FirstFail(props, values)
  IN IF f = 0
       THEN [props |-> [c \in 1..Len(props) |-> Append(props[c], Parsed(values, c))],
             err |-> "", tok |-> ""]
       ELSE [props |-> [c \in 1..Len(props) |->
                          IF c < f THEN Append(props[c], Parsed(values, c)) ELSE props[c]],
             err |-> IF f > Len(values) THEN "IndexError" ELSE "ValueError",
             tok |-> IF f > Len(values) THEN "" ELSE values[f]]

\* a slip: the terminal row is kept
TruncatedKeepsLast(props) == props

\* return [prop[:-1] for prop in properties]
Truncated(props) == [c \in 1..Len(props) |-> DropLast(props[c])]

-----------------------------------------------------------------------------
(* The accessors: get_average, get_property, get_final_avg *)

\* the loop shared by get_average and get_property: for every qualifying
\* BREAK at k, read column idx (0-based) of the three lines off lines below
RECURSIVE ScanColumn(_, _, _, _, _)
ScanColumn(ls, k, off, idx, acc) ==
  IF k > Len(ls) THEN [err |-> "", out |-> acc]
  ELSE IF NextMissing(ls, k) THEN [err |-> "IndexError", out |-> acc]
  ELSE IF ~Qualifies(ls, k) THEN ScanColumn(ls, k + 1, off, idx, acc)
  ELSE IF k + 3 + off > Len(ls) THEN [err |-> "IndexError", out |-> acc]
  ELSE LET values == Toks3(ls, k + 1 + off)
       IN IF idx >= Len(values)
            THEN [err |-> "IndexError", out |-> acc]
            ELSE ScanColumn(ls, k + 1, off, idx, Append(acc, FloatOrRaw(At(values, idx))))

\* a slip: cpu(s) is left out of the rejected names
NoAverageWithoutCpu == {"step", "time(ps)"}

\* time properties have no rolling average
NoAverage == {"step", "time(ps)", "cpu(s)"}

\* if prop_index > 20: prop_index -= 1
AverageIndex(hs, prop) ==
  LET prop_index == IndexOf(hs, prop)
  IN IF prop_index > CpuIndex THEN prop_index - 1 ELSE prop_index

get_average(ls, hs, prop) ==
  IF prop \in NoAverage
    THEN [fn |-> "get_average", prop |-> prop, index |-> -1,
          err |-> "NotApplicable", out |-> <<>>]
    ELSE LET r == ScanColumn(ls, 1, AvgOffset, AverageIndex(hs, prop), <<>>)
         IN [fn |-> "get_average", prop |-> prop, index |-> AverageIndex(hs, prop),
             err |-> r.err, out |-> IF r.err = "" THEN DropLast(r.out) ELSE <<>>]

get_property(ls, hs, prop) ==
  LET r == ScanColumn(ls, 1, 0, IndexOf(hs, prop), <<>>)
  IN [fn |-> "get_property", prop |-> prop, index |-> IndexOf(hs, prop),
      err |-> r.err, out |-> IF r.err = "" THEN DropLast(r.out) ELSE <<>>]

\* a slip: the third-to-last BREAK is taken, [-3]
AvgLineThird(ls) ==
  LET breaks == {k \in 1..Len(ls) : ls[k] = BREAK}
      after(k) == Cardinality({m \in breaks : m > k})
  IN IF Cardinality(breaks) < 3 THEN 0
     ELSE CHOOSE k \in breaks : after(k) = 2

\* [i for i, line in enumerate(lines) if line == BREAK][-2], 1-based; 0 when
\* there are fewer than two
AvgLine(ls) ==
  LET breaks == {k \in 1..Len(ls) : ls[k] = BREAK}
      last == CHOOSE k \in breaks : \A m \in breaks : m <= k
  IN IF Cardinality(breaks) < 2 THEN 0
     ELSE CHOOSE k \in breaks \ {last} : \A m \in breaks \ {last} : m <= k

get_final_avg(ls, hs, prop) ==
  LET prop_index == IndexOf(hs, prop)
      avg_line == AvgLine(ls)
      raise == [fn |-> "get_final_avg", prop |-> prop, index |-> prop_index,
                err |-> "IndexError", out |-> <<>>]
  IN IF avg_line = 0 \/ avg_line + 3 > Len(ls) THEN raise
     ELSE LET values == Toks3(ls, avg_line + 1)
          IN IF prop_index >= Len(values) THEN raise
             ELSE [fn |-> "get_final_avg", prop |-> prop, index |-> prop_index,
                   err |-> "", out |-> <<FloatOrRaw(At(values, prop_index))>>]

-----------------------------------------------------------------------------
(* The state machine *)

NoQuery == [fn |-> "", prop |-> "", index |-> -1, err |-> "", out |-> <<>>]
NoOutput == [header |-> <<>>, rows |-> <<>>]

Files == {FileHead(hk) \o Flatten(bs) :
            hk \in HeaderKinds, bs \in UNION {[1..n -> BlockKinds] : n \in 0..MaxBlocks}}

Init ==
  /\ lines \in Files
  /\ headers = <<>>
  /\ pc = "start"
  /\ i = 1
  /\ properties = <<>>
  /\ table = <<>>
  /\ err = ""
  /\ errTok = ""
  /\ sorted_headers = <<>>
  /\ sorted_props = <<>>
  /\ parsed = NoOutput
  /\ query = NoQuery

\* headers = get_headers(lines)
GetHeaders ==
  /\ pc = "start"
  /\ headers' = get_headers(lines)
  /\ pc' = "scan"
  /\ UNCHANGED <<lines, i, properties, table, err, errTok,
                 sorted_headers, sorted_props, parsed, query>>

\* a loop iteration of get_all_props whose condition is false
ScanSkip ==
  /\ pc = "scan"
  /\ i <= Len(lines)
  /\ ~NextMissing(lines, i)
  /\ ~Qualifies(lines, i)
  /\ i' = i + 1
  /\ UNCHANGED <<lines, headers, pc, properties, table, err, errTok,
                 sorted_headers, sorted_props, parsed, query>>

\* a loop iteration at a BREAK that is the last line: lines[i+1] raises
ScanPastEnd ==
  /\ pc = "scan"
  /\ i <= Len(lines)
  /\ NextMissing(lines, i)
  /\ pc' = "raised"
  /\ err' = "IndexError"
  /\ UNCHANGED <<lines, headers, i, properties, table, errTok,
                 sorted_headers, sorted_props, parsed, query>>

\* a loop iteration at a qualifying record
ScanRecord ==
  /\ pc = "scan"
  /\ i <= Len(lines)
  /\ Qualifies(lines, i)
  /\ LET r == IF i + 3 > Len(lines)
                THEN [props |-> properties, err |-> "IndexError", tok |-> ""]
              ELSE IF properties = <<>>
                THEN FillFirst(Toks3(lines, i + 1))
              ELSE AppendRow(properties, Toks3(lines, i + 1))
     IN /\ properties' = r.props
        /\ err' = r.err
        /\ errTok' = r.tok
        /\ pc' = IF r.err = "" THEN "scan" ELSE "raised"
        /\ i' = IF r.err = "" THEN i + 1 ELSE i
  /\ UNCHANGED <<lines, headers, table, sorted_headers, sorted_props, parsed, query>>

\* the end of the loop: get_all_props returns
ScanReturn ==
  /\ pc = "scan"
  /\ i > Len(lines)
  /\ table' = Truncated(properties)
  /\ pc' = "returned"
  /\ UNCHANGED <<lines, headers, i, properties, err, errTok,
                 sorted_headers, sorted_props, parsed, query>>

\* sorted_headers = sort_by_column(headers)
SortHeaders(hs) == sort_by_column(hs)
\* a slip: the series are written in the extractor's order
SortPropsOmitted(props) == props

\* sorted_props = sort_by_column(properties)
SortProps(props) == sort_by_column(props)

\* the rest of main: sort the columns, format and write
WriteParsed ==
  /\ pc = "returned"
  /\ IF table = <<>>
       THEN /\ pc' = "main_raised"
            /\ err' = "IndexError"
            /\ UNCHANGED <<sorted_headers, sorted_props, parsed>>
       ELSE /\ pc' = "written"
            /\ err' = err
            /\ sorted_headers' = SortHeaders(headers)
            /\ sorted_props' = SortProps(table)
            /\ parsed' =
                 [header |-> [k \in 1..Len(SortHeaders(headers)) |->
                                LJust(SortHeaders(headers)[k], HeaderField)],
                  rows |-> [r \in 1..Len(table[1]) |->
                              [k \in 1..Len(SortProps(table)) |->
                                 LJust(Str(SortProps(table)[k][r]), ValueField) \o " "]]]
  /\ UNCHANGED <<lines, headers, i, properties, table, errTok, query>>

Finished == pc \in {"returned", "raised"}

GetAverage ==
  /\ Finished
  /\ \E prop \in Range(headers) : query' = get_average(lines, headers, prop)
  /\ pc' = "queried"
  /\ UNCHANGED <<lines, headers, i, properties, table, err, errTok,
                 sorted_headers, sorted_props, parsed>>

GetProperty ==
  /\ Finished
  /\ \E prop \in Range(headers) : query' = get_property(lines, headers, prop)
  /\ pc' = "queried"
  /\ UNCHANGED <<lines, headers, i, properties, table, err, errTok,
                 sorted_headers, sorted_props, parsed>>

GetFinalAvg ==
  /\ Finished
  /\ \E prop \in Range(headers) : query' = get_final_avg(lines, headers, prop)
  /\ pc' = "queried"
  /\ UNCHANGED <<lines, headers, i, properties, table, err, errTok,
                 sorted_headers, sorted_props, parsed>>

Next ==
  \/ GetHeaders
  \/ ScanSkip
  \/ ScanPastEnd
  \/ ScanRecord
  \/ ScanReturn
  \/ WriteParsed
  \/ GetAverage
  \/ GetProperty
  \/ GetFinalAvg

Spec == Init /\ [][Next]_vars

-----------------------------------------------------------------------------
(* Vocabulary of the properties *)

\* the positions of the BREAK lines that start a qualifying record
QualifyingAt(ls) == {k \in 1..Len(ls) : Qualifies(ls, k)}
NumQualifying == Cardinality(QualifyingAt(lines))
\* the r-th qualifying record in file order
KthQualifying(ls, r) ==
  CHOOSE k \in QualifyingAt(ls) : Cardinality({m \in QualifyingAt(ls) : m < k}) = r - 1
LastQualifying(ls) == CHOOSE k \in QualifyingAt(ls) : \A m \in QualifyingAt(ls) : m <= k

\* get_all_props has returned / has raised
ScanReturned == pc \in {"returned", "written", "main_raised"} \/ (pc = "queried" /\ err = "")
ScanRaised == pc = "raised" \/ (pc = "queried" /\ err # "")

\* Python's == on two values: numbers compare by value, strings by content
Tenths(v) == IF v.ty = "int" THEN 10 * v.n ELSE v.n
PyEq(a, b) == IF a.ty = "str" \/ b.ty = "str"
                THEN a.ty = b.ty /\ a.s = b.s
                ELSE Tenths(a) = Tenths(b)

\* the value the extractor's rule gives the token of column c (1-based)
Expected(tok, c) == IF c = 1 THEN PyInt(FloatOf[tok] \div 10) ELSE FloatOrRaw(tok)

-----------------------------------------------------------------------------
(* The claims *)

\* C1: when at least one record qualifies and get_all_props returns, every
\* column of the returned table holds exactly (qualifying records - 1)
\* values, the r-th of them parsed from the r-th qualifying record in file
\* order, and main writes that many data rows.
C1_RowCount ==
  (ScanReturned /\ NumQualifying >= 1) =>
    /\ Len(table) >= 1
    /\ \A c \in 1..Len(table) :
         /\ Len(table[c]) = NumQualifying - 1
         /\ \A r \in 1..(NumQualifying - 1) :
              table[c][r] = Expected(Toks3(lines, KthQualifying(lines, r) + 1)[c], c)
    /\ pc = "written" => Len(parsed.rows) = NumQualifying - 1

C1_Witness ==
  /\ pc = "written"
  /\ NumQualifying = 3
  /\ Len(parsed.rows) = 2

\* C3: while get_all_props scans, and in the table it returns, all columns
\* have the same length: the number of qualifying records passed so far,
\* and that number less one on return.
C3_ColumnsInStep ==
  /\ (pc = "scan" \/ ScanReturned) =>
       \A c \in 1..Len(properties) :
         Len(properties[c]) = Cardinality({k \in QualifyingAt(lines) : k < i})
  /\ ScanReturned =>
       /\ Len(table) = Len(properties)
       /\ \A c \in 1..Len(table) : Len(table[c]) + 1 = Len(properties[c])

C3_Witness ==
  /\ pc = "scan"
  /\ Len(properties) = Keep
  /\ Len(properties[1]) = 2
  /\ properties[4][2] = PyStr(STAR)

\* C4: get_average ends with the not-applicable error for step, time(ps)
\* and cpu(s), whatever the lines hold, and for no other header name.
C4_NotApplicable ==
  query.fn = "get_average" =>
    (query.err = "NotApplicable" <=> query.prop \in {"step", "time(ps)", "cpu(s)"})

\* cpu(s) is rejected on a file whose scan would raise, and a name next to
\* it in the header list is not
C4_Witness ==
  /\ query.fn = "get_average"
  /\ query.prop = "cpu(s)"
  /\ query.err = "NotApplicable"
  /\ ScanRaised

\* the inverse of the stride-10 permutation: in[m] = out[3*(m mod 10) + m div 10]
Ungather(out) ==
  [m \in 1..Len(out) |-> At(out, (Keep \div Stride) * ((m - 1) % Stride) + (m - 1) \div Stride)]

StridePermuted(in, out) ==
  /\ Len(out) = Keep
  /\ \A c \in 0..(Stride - 1) : \A r \in 0..(Keep \div Stride - 1) :
       At(out, (Keep \div Stride) * c + r) = At(in, c + Stride * r)
  /\ Ungather(out) = in

\* C5: on the 30-element sequences main sorts (the header list and the
\* table), sort_by_column gives out[3*i + r] = in[i + 10*r], the inverse
\* permutation gives the input back, and a second application to the header
\* list does not give the result of the first.
C5_StridePermutation ==
  pc = "written" =>
    /\ Len(headers) = Keep =>
         /\ StridePermuted(headers, sorted_headers)
         /\ sort_by_column(sorted_headers) # sorted_headers
         /\ Ungather(sort_by_column(sorted_headers)) = sorted_headers
    /\ Len(table) = Keep => StridePermuted(table, sorted_props)

C5_Witness ==
  /\ pc = "written"
  /\ Len(headers) = Keep
  /\ Len(table) = Keep
  /\ At(sorted_headers, 1) = "time(ps)"
  /\ At(sorted_headers, 2) = "cpu(s)"
  /\ Len(sorted_props[1]) >= 1

\* C6: in the table main writes for a 30-name header list and a 30-column
\* table, the series under each header is the one get_all_props stored at
\* that header's index, every written field is the formatted value of that
\* series, and the header order is the stride-10 permutation of the headers.
C6_HeadersStayPaired ==
  (pc = "written" /\ Len(headers) = Keep /\ Len(table) = Keep) =>
    \A k \in 1..Keep :
      LET idx == IndexOf(headers, sorted_headers[k])
      IN /\ sorted_props[k] = At(table, idx)
         /\ idx = Stride * ((k - 1) % (Keep \div Stride)) + (k - 1) \div (Keep \div Stride)
         /\ parsed.header[k] = LJust(At(headers, idx), HeaderField)
         /\ \A r \in 1..Len(parsed.rows) :
              parsed.rows[r][k] = LJust(Str(At(table, idx)[r]), ValueField) \o " "

C6_Witness ==
  /\ pc = "written"
  /\ Len(headers) = Keep
  /\ Len(table) = Keep
  /\ Len(parsed.rows) = 2
  /\ parsed.rows[2][10] = "********    "
  /\ parsed.header[10] = "eng_cfg     "

\* C2: an overflow sentinel in a data record, the first record and column 0
\* included, never makes get_all_props raise a parse error, and the sentinel
\* of a retained row is stored as the raw string and written verbatim.
C2_SentinelNeverRaises ==
  /\ ~(ScanRaised /\ err = "ValueError" /\ errTok = STAR)
  /\ ScanReturned =>
       \A c \in 1..Len(table) : \A r \in 1..Len(table[c]) :
         Toks3(lines, KthQualifying(lines, r) + 1)[c] = STAR =>
           /\ table[c][r] = PyStr(STAR)
           /\ (pc = "written" /\ Len(table) = Keep) =>
                \E k \in 1..Keep : parsed.rows[r][k] = LJust(STAR, ValueField) \o " "

\* C7: when no record qualifies, get_all_props returns an empty table, also
\* when a Separator is the last line.
C7_NoRecordReturnsEmpty ==
  ((ScanReturned \/ ScanRaised) /\ NumQualifying = 0) =>
    (ScanReturned /\ table = <<>>)

\* exactly one Separator follows the one that starts the last qualifying record
OneBreakAfterLast ==
  Cardinality({k \in 1..Len(lines) : lines[k] = BREAK /\ k > LastQualifying(lines)}) = 1

\* C8 as claimed: the value get_final_avg returns for a header name equals
\* the value of that column in the last qualifying record, the row
\* get_all_props accumulates and drops (whenever both calls succeed).
C8_FinalAvgIsTerminalRow ==
  (query.fn = "get_final_avg" /\ query.err = "" /\ ScanReturned
     /\ NumQualifying >= 1 /\ query.index < Len(properties)) =>
    LET dropped == At(properties, query.index)[NumQualifying]
    IN PyEq(query.out[1], dropped)

\* C8 as amended: when the second-to-last Separator is the one that starts
\* the last qualifying record, both calls succeed and the table has the
\* named column, get_final_avg returns
\* the value parsed from that record's token of the named column; for every
\* column but the first it equals the value get_all_props accumulated and
\* dropped, and for the first column (step) the dropped value is its integer
\* part.
C8_FinalAvgOfLastRecord ==
  (query.fn = "get_final_avg" /\ query.err = "" /\ ScanReturned
     /\ NumQualifying >= 1 /\ query.index < Len(properties)
     /\ OneBreakAfterLast) =>
    LET dropped == At(properties, query.index)[NumQualifying]
        tok == At(Toks3(lines, LastQualifying(lines) + 1), query.index)
    IN /\ query.out[1] = FloatOrRaw(tok)
       /\ query.index >= 1 => query.out[1] = dropped
       /\ query.index = 0 => dropped = PyInt(query.out[1].n \div 10)

C8_Witness ==
  /\ query.fn = "get_final_avg"
  /\ query.err = ""
  /\ ScanReturned
  /\ NumQualifying = 2
  /\ OneBreakAfterLast
  /\ query.prop = "press"
  /\ query.out[1] = PyStr(STAR)

\* C9: the index at which a returning get_average reads the rolling averages is the header
\* index less one exactly when the header index is greater than the position
\* of cpu(s) in the header list.
C9_IndexShiftsPastCpu ==
  (query.fn = "get_average" /\ query.err = "") =>
    LET prop_index == IndexOf(headers, query.prop)
    IN query.index = IF prop_index > IndexOf(headers, "cpu(s)")
                       THEN prop_index - 1 ELSE prop_index

\* C10: whenever get_all_props and get_property both return, the list
\* get_property gives for a header name is column headers.index(name) of
\* the table, with values of the same type.
C10_PropertyIsColumn ==
  (query.fn = "get_property" /\ query.err = "" /\ ScanReturned
     /\ query.index < Len(table)) =>
    query.out = At(table, query.index)

====
